---------------------------- MODULE Spec2Model ----------------------------
(***************************************************************************)
(* Per-core control plane of the hvisor x86_64 port: the ArchCpu state     *)
(* machine of src/arch/x86_64/cpu.rs with its two diverging sequences,     *)
(* idle (park the core) and launch_vm (enter a guest).                     *)
(*                                                                         *)
(* Functions with a body (new, idle_set_power_state, idle_set_stack_top,   *)
(* idle, launch_vm) are translated from their bodies.  Functions marked    *)
(* #[verifier::external_body] are the hardware boundary: their bodies are  *)
(* placeholders, so each is modelled by its contract, as a nondeterministic*)
(* choice over every post-state its `ensures` clause allows.  A field the  *)
(* clause does not mention may change; a result the clause does not cover  *)
(* (Err) leaves the whole structure unconstrained.  A `requires` clause of *)
(* a public entry point (idle, launch_vm) is the guard of the call: the    *)
(* verifier rejects every call site that does not establish it.            *)
(***************************************************************************)
EXTENDS Integers, Sequences, FiniteSets, TLC

(***************************************************************************)
(* u64 values.  TLC integers are 32 bits wide, so a u64 is kept as four    *)
(* 16-bit limbs, least significant first; addition wraps at 2^64 exactly   *)
(* as the machine's does and reports the carry out of the top limb.        *)
(***************************************************************************)
LimbBase == 65536

U64(n) == <<n % LimbBase, (n \div LimbBase) % LimbBase, 0, 0>>

U64Zero == U64(0)

U64Add(a, b) ==
    LET s1 == a[1] + b[1]
        s2 == a[2] + b[2] + (s1 \div LimbBase)
        s3 == a[3] + b[3] + (s2 \div LimbBase)
        s4 == a[4] + b[4] + (s3 \div LimbBase)
    IN  [value    |-> <<s1 % LimbBase, s2 % LimbBase, s3 % LimbBase, s4 % LimbBase>>,
         overflow |-> s4 \div LimbBase > 0]

U64Gt(a, b) ==
    \/ a[4] > b[4]
    \/ a[4] = b[4] /\ a[3] > b[3]
    \/ a[4] = b[4] /\ a[3] = b[3] /\ a[2] > b[2]
    \/ a[4] = b[4] /\ a[3] = b[3] /\ a[2] = b[2] /\ a[1] > b[1]

U64Mod16(a) == a[1] % 16

(***************************************************************************)
(* Program constants.                                                      *)
(***************************************************************************)
MAX_CPU_NUM == 256

PER_CPU_SIZE == 524288

(***************************************************************************)
(* GeneralRegisters: sixteen u64 slots in declaration order.               *)
(***************************************************************************)
RegisterOrder ==
    <<"rax", "rcx", "rdx", "rbx", "_unused_rsp", "rbp", "rsi", "rdi",
      "r8", "r9", "r10", "r11", "r12", "r13", "r14", "r15">>

RegisterNames == {RegisterOrder[i] : i \in 1..Len(RegisterOrder)}

ZeroRegisters == [r \in RegisterNames |-> 0]

\* The position of register r in the declaration, from 1.
RegisterIndex(r) == CHOOSE i \in 1..Len(RegisterOrder) : RegisterOrder[i] = r

\* A frame whose slots hold distinct values: slot i holds i.
CountingRegisters == [r \in RegisterNames |-> RegisterIndex(r)]

\* The size of a u64 field in bytes.
SlotSize == 8

\* The bytes of a u64 field in memory, least significant first, for a value
\* below 2^16.
U64Bytes(v) == <<v % 256, (v \div 256) % 256, 0, 0, 0, 0, 0, 0>>

\* #[repr(C)]: the fields are laid out in declaration order, each at the end
\* of the one before it (u64 fields need no padding).  The image of the first
\* n fields of a frame.
RECURSIVE repr_C_layout(_, _)
repr_C_layout(regs, n) ==
    IF n = 0 THEN <<>>
    ELSE repr_C_layout(regs, n - 1) \o U64Bytes(regs[RegisterOrder[n]])

\* The byte offset of the field at position i.
repr_C_offset(i) == Len(repr_C_layout(ZeroRegisters, i - 1))

\* The memory image of a whole frame.
FrameImage(regs) == repr_C_layout(regs, Len(RegisterOrder))

\* Mutant of offset_of: the unused slot is not counted, rbp follows rbx.
offset_of_without_unused_slot ==
    [rax |-> 0, rcx |-> 8, rdx |-> 16, rbx |-> 24, rbp |-> 32, rsi |-> 40,
     rdi |-> 48, r8 |-> 56, r9 |-> 64, r10 |-> 72, r11 |-> 80, r12 |-> 88,
     r13 |-> 96, r14 |-> 104, r15 |-> 112]

\* GeneralRegisters::offset_of_rax() .. offset_of_r15(): the declared offsets;
\* none is declared for _unused_rsp.
offset_of ==
    [rax |-> 0, rcx |-> 8, rdx |-> 16, rbx |-> 24, rbp |-> 40, rsi |-> 48,
     rdi |-> 56, r8 |-> 64, r9 |-> 72, r10 |-> 80, r11 |-> 88, r12 |-> 96,
     r13 |-> 104, r14 |-> 112, r15 |-> 120]

\* GeneralRegisters::size().
GeneralRegisters_size == 128

(***************************************************************************)
(* CpuRegisters and the instructions of the VM-entry sequence.  Addresses  *)
(* are relative to the ArchCpu, as in vmx_launch_simulated: guest_regs is  *)
(* at 0 and host_stack_top at GeneralRegisters::size().                    *)
(***************************************************************************)
CpuRegisterNames ==
    {"rax", "rbx", "rcx", "rdx", "rsi", "rdi", "rbp", "rsp",
     "r8", "r9", "r10", "r11", "r12", "r13", "r14", "r15"}

\* GeneralRegisters::to_cpu_registers: every register takes the frame field
\* of its name; rsp is not loaded from the frame and is given as 0.
to_cpu_registers(regs) ==
    [r \in CpuRegisterNames |-> IF r = "rsp" THEN 0 ELSE regs[r]]

\* ArchCpu::guest_regs_addr() and ArchCpu::host_stack_top_addr().
guest_regs_addr == 0

host_stack_top_addr == GeneralRegisters_size

\* The bytes of a u64 held as four 16-bit limbs, least significant first.
U64LimbBytes(v) ==
    <<v[1] % 256, v[1] \div 256, v[2] % 256, v[2] \div 256,
      v[3] % 256, v[3] \div 256, v[4] % 256, v[4] \div 256>>

\* The memory a core's stack pointer walks over during the sequence: the
\* guest register frame followed by host_stack_top.
ArchCpuImage(self) == FrameImage(self.guest_regs) \o U64LimbBytes(self.host_stack_top)

\* The u64 at address addr of a memory image, for a value below 2^16.
MemoryAt(mem, addr) == mem[addr + 1] + 256 * mem[addr + 2]

\* The registers vmx_launch_simulated starts from: all zero, rdi holding the
\* address of the ArchCpu.
CpuRegisters_at_call == [r \in CpuRegisterNames |-> 0]

\* mov rsp, rdi
Instr_MovRspRdi(regs) == [regs EXCEPT !.rsp = regs.rdi]

\* pop r: r = *(rsp); rsp += 8.
Instr_Pop(r, regs, mem) ==
    [regs EXCEPT ![r] = MemoryAt(mem, regs.rsp), !.rsp = regs.rsp + SlotSize]

\* add rsp, 8
Instr_AddRsp8(regs) == [regs EXCEPT !.rsp = regs.rsp + SlotSize]

Pop(r) == [name |-> "pop " \o r, op |-> "pop", reg |-> r]

\* Mutant of restore_regs_from_stack: the slot of _unused_rsp is not skipped.
restore_regs_from_stack_without_skip ==
    <<Pop("rax"), Pop("rcx"), Pop("rdx"), Pop("rbx"),
      Pop("rbp"), Pop("rsi"), Pop("rdi"),
      Pop("r8"), Pop("r9"), Pop("r10"), Pop("r11"),
      Pop("r12"), Pop("r13"), Pop("r14"), Pop("r15")>>

\* Mutant of restore_regs_from_stack: rdx is popped before rcx.
restore_regs_from_stack_rdx_before_rcx ==
    <<Pop("rax"), Pop("rdx"), Pop("rcx"), Pop("rbx"),
      [name |-> "add rsp, 8", op |-> "add", reg |-> "rsp"],
      Pop("rbp"), Pop("rsi"), Pop("rdi"),
      Pop("r8"), Pop("r9"), Pop("r10"), Pop("r11"),
      Pop("r12"), Pop("r13"), Pop("r14"), Pop("r15")>>

\* restore_regs_from_stack!(): pop rax, rcx, rdx, rbx; add rsp, 8; pop rbp,
\* rsi, rdi, r8 .. r15.
restore_regs_from_stack ==
    <<Pop("rax"), Pop("rcx"), Pop("rdx"), Pop("rbx"),
      [name |-> "add rsp, 8", op |-> "add", reg |-> "rsp"],
      Pop("rbp"), Pop("rsi"), Pop("rdi"),
      Pop("r8"), Pop("r9"), Pop("r10"), Pop("r11"),
      Pop("r12"), Pop("r13"), Pop("r14"), Pop("r15")>>

\* The instructions of vmx_launch before vmlaunch: mov rsp, rdi and the
\* register restore.
vmx_launch_sequence ==
    <<[name |-> "mov rsp, rdi", op |-> "mov", reg |-> "rsp"]>> \o restore_regs_from_stack

\* One instruction of the sequence executed on the register file regs.
Execute(instr, regs, mem) ==
    CASE instr.op = "mov" -> Instr_MovRspRdi(regs)
      [] instr.op = "pop" -> Instr_Pop(instr.reg, regs, mem)
      [] instr.op = "add" -> Instr_AddRsp8(regs)

\* The register file after the first n instructions of the sequence: the
\* n-th instruction executed on the one register file the first n - 1 leave.
RECURSIVE ExecuteSequence(_, _, _)
ExecuteSequence(n, regs, mem) ==
    IF n = 0 THEN regs
    ELSE CHOOSE after \in {Execute(vmx_launch_sequence[n], before, mem) :
                              before \in {ExecuteSequence(n - 1, regs, mem)}} : TRUE

\* The register file at the VM-entry instruction: the whole sequence run with
\* rdi (at launch) or r15 (at resume) holding the address of the ArchCpu.
RegistersAtVmEntry(self) ==
    ExecuteSequence(Len(vmx_launch_sequence),
                    [CpuRegisters_at_call EXCEPT !.rdi = guest_regs_addr],
                    ArchCpuImage(self))

\* Mutant of is_valid: only the all-zero frame is accepted.
is_valid_zero_only(regs) == regs = [r \in RegisterNames |-> 0]

\* GeneralRegisters::is_valid: any bit pattern is acceptable.
is_valid(regs) == TRUE

\* VmxRegion { frame: Option<u64> }: <<>> is None, <<a>> is Some(a).
VmxRegion_fake_init == [frame |-> <<>>]

VmxRegion_new == [frame |-> <<0>>]

VirtLocalApic_new == [phys_lapic |-> "PhysLocalApic"]


(***************************************************************************)
(* State.                                                                  *)
(*   cpu      the ArchCpu of every core that has run ArchCpu::new, keyed   *)
(*            by the core's hardware id (what this_cpu_id() returns on it) *)
(*   pc       each core's position: the operation it executes next, or     *)
(*            "absent" for a core that is not started in this run          *)
(*   log      the steps each core has executed so far, with their results  *)
(*   entered  the ArchCpu each core had when it called idle or launch_vm   *)
(*   args     the (entry, rsp) a core passed to launch_vm                  *)
(*   core_end the value of core_end(), fixed for the lifetime of the run   *)
(*   parking_memory_set  whether the shared parking memory has been set up *)
(*   cpu_regs the CPU register file (CpuRegisters) of each core that has   *)
(*            run the register-restore sequence of a VM entry              *)
(*   parking_memory_set_by  the cores that ran the closure of              *)
(*            PARKING_MEMORY_SET.call_once, in the order they ran it       *)
(***************************************************************************)
VARIABLES cpu, pc, log, entered, args, core_end, parking_memory_set, cpu_regs,
          parking_memory_set_by

vars ==
    <<cpu, pc, log, entered, args, core_end, parking_memory_set, cpu_regs,
      parking_memory_set_by>>

\* Mutant of call_once: the closure runs on every call.
call_once_every_time(done, by, c) == Append(by, c)

\* PARKING_MEMORY_SET.call_once(|| { ... }) on core c: the closure runs if no
\* call has completed before, and is skipped otherwise.
call_once(done, by, c) == IF done THEN by ELSE Append(by, c)

\* Mutant of this_cpu_id: the reported id is never 0 (the ensures clause
\* result > 0 of the standalone idle file).
this_cpu_id_never_zero(c) == IF c = 0 THEN 1 ELSE c

\* this_cpu_id() on core c.
this_cpu_id(c) == c

\* spec_core_end(): core_end() ensures result > 0; its 16-byte alignment is the
\* platform's (assume(spec_core_end() % 16 == 0) in idle_set_stack_top).
spec_core_end == core_end

\* 0x10000000, the example value of core_end().
CoreEndExample == U64(268435456)

\* 2^64 - 2 * PER_CPU_SIZE: the stack of core 0 still fits below 2^64.
CoreEndHigh == <<0, LimbBase - 16, LimbBase - 1, LimbBase - 1>>

\* 2^64 - 16, the largest aligned address.
CoreEndTop == <<LimbBase - 16, LimbBase - 1, LimbBase - 1, LimbBase - 1>>

CoreEnds == {CoreEndExample, CoreEndHigh}

CoreEndsWide == {U64(16), CoreEndExample, CoreEndHigh, CoreEndTop}

\* The cores of the model, by hardware id; a run starts some of them.
Cores == {0, 3, 5, MAX_CPU_NUM - 1}

(***************************************************************************)
(* ArchCpu: the invariant and the two readiness predicates.                *)
(***************************************************************************)
inv(self) ==
    /\ self.cpuid < MAX_CPU_NUM
    /\ (self.vmx_on => self.vmcs_configured)
    /\ is_valid(self.guest_regs)
    /\ (self.host_stack_top = U64Zero \/ U64Mod16(self.host_stack_top) = 0)

\* Mutant of ready_for_idle: the alignment conjunct is missing.
ready_for_idle_without_alignment(self) ==
    /\ self.vmx_on
    /\ self.vmcs_configured
    /\ U64Gt(self.host_stack_top, U64Zero)
    /\ U64Gt(self.host_stack_top, spec_core_end)
    /\ ~self.power_on

\* Mutant of ready_for_idle: the two virtualization conjuncts are missing.
ready_for_idle_stack_only(self) ==
    /\ U64Gt(self.host_stack_top, U64Zero)
    /\ U64Gt(self.host_stack_top, spec_core_end)
    /\ ~self.power_on
    /\ U64Mod16(self.host_stack_top) = 0

ready_for_idle(self) ==
    /\ self.vmx_on
    /\ self.vmcs_configured
    /\ U64Gt(self.host_stack_top, U64Zero)
    /\ U64Gt(self.host_stack_top, spec_core_end)
    /\ ~self.power_on
    /\ U64Mod16(self.host_stack_top) = 0

ready_for_vm_launch(self) ==
    /\ self.vmx_on
    /\ self.vmcs_configured
    /\ is_valid(self.guest_regs)

\* Mutant of ArchCpu_new: the stack top starts at 8.
ArchCpu_new_stack_top_8(cpuid, hw) ==
    [guest_regs           |-> ZeroRegisters,
     host_stack_top       |-> U64(8),
     cpuid                |-> this_cpu_id(hw),
     power_on             |-> FALSE,
     virt_lapic           |-> VirtLocalApic_new,
     vmx_on               |-> FALSE,
     vmcs_configured      |-> FALSE,
     vmcs_revision_id     |-> 0,
     vmxon_region         |-> VmxRegion_fake_init,
     vmcs_region          |-> VmxRegion_fake_init,
     vm_launch_guest_regs |-> ZeroRegisters]

\* Mutant of ArchCpu_new: the recorded id is the argument, not this_cpu_id().
ArchCpu_new_recording_argument(cpuid, hw) ==
    [guest_regs           |-> ZeroRegisters,
     host_stack_top       |-> U64Zero,
     cpuid                |-> cpuid,
     power_on             |-> FALSE,
     virt_lapic           |-> VirtLocalApic_new,
     vmx_on               |-> FALSE,
     vmcs_configured      |-> FALSE,
     vmcs_revision_id     |-> 0,
     vmxon_region         |-> VmxRegion_fake_init,
     vmcs_region          |-> VmxRegion_fake_init,
     vm_launch_guest_regs |-> ZeroRegisters]

\* ArchCpu::new(cpuid) on the core whose hardware id is hw: the argument is
\* only required to be < MAX_CPU_NUM, the recorded id is this_cpu_id().
ArchCpu_new(cpuid, hw) ==
    [guest_regs           |-> ZeroRegisters,
     host_stack_top       |-> U64Zero,
     cpuid                |-> this_cpu_id(hw),
     power_on             |-> FALSE,
     virt_lapic           |-> VirtLocalApic_new,
     vmx_on               |-> FALSE,
     vmcs_configured      |-> FALSE,
     vmcs_revision_id     |-> 0,
     vmxon_region         |-> VmxRegion_fake_init,
     vmcs_region          |-> VmxRegion_fake_init,
     vm_launch_guest_regs |-> ZeroRegisters]

(***************************************************************************)
(* The hardware boundary.  The post-states of an external_body function    *)
(* are drawn from Unconstrained(old): every field either keeps its value   *)
(* or takes one of a few other values, chosen so that each conjunct of     *)
(* inv can be broken (an id out of range, an unaligned stack top, VMX on   *)
(* without a VMCS).                                                        *)
(***************************************************************************)
ScratchRegisters == [r \in RegisterNames |-> 1]

\* 0, 8, 0x20000000 and 0x20000008: zero, and an aligned and an unaligned
\* address on either side of the example core_end().
StackTopSamples == {U64Zero, U64(8), U64(536870912), U64(536870920)}

HwResource(self) ==
    [rev |-> self.vmcs_revision_id, vmxon |-> self.vmxon_region, vmcs |-> self.vmcs_region]

HwResourceSamples(old) ==
    {HwResource(old), [rev |-> 1, vmxon |-> VmxRegion_new, vmcs |-> VmxRegion_new]}

Unconstrained(old) ==
    {[guest_regs           |-> g,
      host_stack_top       |-> h,
      cpuid                |-> i,
      power_on             |-> p,
      virt_lapic           |-> old.virt_lapic,
      vmx_on               |-> v,
      vmcs_configured      |-> k,
      vmcs_revision_id     |-> hw.rev,
      vmxon_region         |-> hw.vmxon,
      vmcs_region          |-> hw.vmcs,
      vm_launch_guest_regs |-> l] :
        g \in {old.guest_regs, ScratchRegisters},
        h \in StackTopSamples \cup {old.host_stack_top},
        i \in {old.cpuid, MAX_CPU_NUM},
        p \in BOOLEAN, v \in BOOLEAN, k \in BOOLEAN,
        hw \in HwResourceSamples(old),
        l \in {old.vm_launch_guest_regs, ScratchRegisters}}

Results == {"Ok", "Err"}

\* Mutant of idle_clear_interrupt_ensures: host_stack_top is not promised
\* unchanged.
idle_clear_interrupt_ensures_without_stack_top(old, new) ==
    /\ inv(new)
    /\ new.cpuid = old.cpuid
    /\ new.vmx_on = old.vmx_on
    /\ new.vmcs_configured = old.vmcs_configured
    /\ new.power_on = old.power_on

idle_clear_interrupt_ensures(old, new) ==
    /\ inv(new)
    /\ new.cpuid = old.cpuid
    /\ new.vmx_on = old.vmx_on
    /\ new.vmcs_configured = old.vmcs_configured
    /\ new.power_on = old.power_on
    /\ new.host_stack_top = old.host_stack_top

\* Mutant of idle_activate_vmx_ensures: success promises VMX on, but neither
\* the VMCS nor the invariant.
idle_activate_vmx_ensures_vmxon_only(old, new, result) ==
    result = "Ok" =>
        /\ new.vmx_on
        /\ new.cpuid = old.cpuid
        /\ new.power_on = old.power_on
        /\ new.host_stack_top = old.host_stack_top

idle_activate_vmx_ensures(old, new, result) ==
    result = "Ok" =>
        /\ inv(new)
        /\ new.vmx_on
        /\ new.vmcs_configured
        /\ new.cpuid = old.cpuid
        /\ new.power_on = old.power_on
        /\ new.host_stack_top = old.host_stack_top

\* Mutant of idle_init_parking_ensures: power_on is not promised unchanged.
idle_init_parking_ensures_without_power(old, new) ==
    /\ inv(new)
    /\ new.cpuid = old.cpuid
    /\ new.vmx_on = old.vmx_on
    /\ new.vmcs_configured = old.vmcs_configured
    /\ new.host_stack_top = old.host_stack_top

idle_init_parking_ensures(old, new) ==
    /\ inv(new)
    /\ new.cpuid = old.cpuid
    /\ new.vmx_on = old.vmx_on
    /\ new.vmcs_configured = old.vmcs_configured
    /\ new.power_on = old.power_on
    /\ new.host_stack_top = old.host_stack_top

idle_setup_vmcs_ensures(old, new, result) ==
    result = "Ok" =>
        /\ inv(new)
        /\ new.vmcs_configured
        /\ new.cpuid = old.cpuid
        /\ new.vmx_on = old.vmx_on
        /\ new.power_on = old.power_on
        /\ new.host_stack_top = old.host_stack_top

\* Mutant of idle_set_power_state: the stack top is cleared too.
idle_set_power_state_clearing_stack_top(self) ==
    [self EXCEPT !.power_on = FALSE, !.host_stack_top = U64Zero]

\* idle_set_power_state: self.power_on = false.
idle_set_power_state(self) == [self EXCEPT !.power_on = FALSE]

\* Mutant of StackTopSum: cpuid in place of cpuid + 1.
StackTopSum_without_plus_one(self) == U64Add(spec_core_end, U64(self.cpuid * PER_CPU_SIZE))

\* Mutant of StackTopSum: every core is given the slot of core 0.
StackTopSum_ignoring_cpuid(self) == U64Add(spec_core_end, U64(PER_CPU_SIZE))

\* core_end() + ((self.cpuid + 1) * PER_CPU_SIZE) as u64, with the carry out of
\* bit 63.
StackTopSum(self) == U64Add(spec_core_end, U64((self.cpuid + 1) * PER_CPU_SIZE))

\* spec_core_end() + ((cpuid + 1) * PER_CPU_SIZE) as u64 <= u64::MAX, the
\* requires clause of idle and of idle_set_stack_top.
StackTopFits(self) == ~StackTopSum(self).overflow

\* Mutant of idle_set_stack_top: the assignment is missing.
idle_set_stack_top_skipped(self) == {[panic |-> FALSE, self |-> self]}

\* idle_set_stack_top: the outcomes of the assignment.  Where the u64 addition
\* overflows, a build that checks overflow panics before the store and one
\* that does not stores the wrapped sum.
idle_set_stack_top(self) ==
    {[panic |-> FALSE, self |-> [self EXCEPT !.host_stack_top = StackTopSum(self).value]]}
        \cup (IF StackTopSum(self).overflow THEN {[panic |-> TRUE, self |-> self]} ELSE {})

\* The requires clause of idle.
idle_requires(self, c) ==
    /\ inv(self)
    /\ self.cpuid = this_cpu_id(c)
    /\ self.cpuid < MAX_CPU_NUM
    /\ StackTopFits(self)

\* Mutant of idle_after_activate_vmx: step 5 is left out.
idle_after_activate_vmx_skipping_parking(result) ==
    IF result = "Err" THEN "idle_halt" ELSE "idle_setup_vmcs"

\* Mutant of idle_after_activate_vmx: the result is not looked at.
idle_after_activate_vmx_ignoring_err(result) == "idle_init_parking"

\* if vmx_result.is_err() { loop {} }
idle_after_activate_vmx(result) ==
    IF result = "Err" THEN "idle_halt" ELSE "idle_init_parking"

\* Mutant of idle_after_setup_vmcs: the result is not looked at.
idle_after_setup_vmcs_ignoring_err(result) == "idle_set_stack_top"

\* if vmcs_result.is_err() { loop {} }
idle_after_setup_vmcs(result) ==
    IF result = "Err" THEN "idle_halt" ELSE "idle_set_stack_top"

\* Mutant of idle_activate_and_launch: the function returns to the caller of
\* idle.
idle_activate_and_launch_returning == "created"

\* idle_activate_and_launch(&mut self) -> !: the parking page table is
\* activated and the core enters the parking guest; control never comes back.
idle_activate_and_launch == "parked"

\* Mutant of activate_vmx_ensures: success promises VMX on, but not the VMCS.
activate_vmx_ensures_vmxon_only(old, new, result) ==
    result = "Ok" =>
        /\ new.vmx_on
        /\ new.cpuid = old.cpuid
        /\ new.power_on = old.power_on

activate_vmx_ensures(old, new, result) ==
    result = "Ok" =>
        /\ inv(new)
        /\ new.vmx_on
        /\ new.vmcs_configured
        /\ new.cpuid = old.cpuid
        /\ new.power_on = old.power_on

\* Mutant of setup_vmcs_ensures: power_on is not promised unchanged.
setup_vmcs_ensures_without_power(old, new, result) ==
    result = "Ok" =>
        /\ inv(new)
        /\ new.vmcs_configured
        /\ new.cpuid = old.cpuid
        /\ new.vmx_on = old.vmx_on

setup_vmcs_ensures(old, new, result) ==
    result = "Ok" =>
        /\ inv(new)
        /\ new.vmcs_configured
        /\ new.cpuid = old.cpuid
        /\ new.vmx_on = old.vmx_on
        /\ new.power_on = old.power_on

\* Mutant of vmexit_handler_ensures: only cpuid is promised unchanged.
vmexit_handler_ensures_cpuid_only(old, new) ==
    new.cpuid = old.cpuid

vmexit_handler_ensures(old, new) ==
    /\ inv(new)
    /\ new.cpuid = old.cpuid
    /\ new.vmx_on = old.vmx_on
    /\ new.vmcs_configured = old.vmcs_configured

\* Mutant of launch_vm_requires: rsp need not be a multiple of 16.
launch_vm_requires_without_alignment(self, entry, rsp) ==
    /\ inv(self)
    /\ entry > 0
    /\ rsp > 0

\* The requires clause of launch_vm; entry and rsp are u64 values below 2^31.
launch_vm_requires(self, entry, rsp) ==
    /\ inv(self)
    /\ entry > 0
    /\ rsp > 0
    /\ rsp % 16 = 0

\* The (entry, rsp) pairs a caller may offer: 0x200000 and 0x300000 of the
\* launch scenario, zero, and an rsp that is not 16-byte aligned.
LaunchEntries == {0, 2097152}

LaunchRsps == {0, 3145728, 3145736}

\* Mutant of launch_after_activate_vmx: the result is not looked at.
launch_after_activate_vmx_ignoring_err(result) == "setup_vmcs"

\* if vmx_result.is_err() { Self::vmx_entry_failed(); }
launch_after_activate_vmx(result) ==
    IF result = "Err" THEN "vmx_entry_failed" ELSE "setup_vmcs"

\* Mutant of launch_after_setup_vmcs: the result is not looked at.
launch_after_setup_vmcs_ignoring_err(result) == "vmx_launch"

\* if vmcs_result.is_err() { Self::vmx_entry_failed(); }
launch_after_setup_vmcs(result) ==
    IF result = "Err" THEN "vmx_entry_failed" ELSE "vmx_launch"

\* vmlaunch; jmp failed: the instruction enters the guest and never returns
\* ("Entered"), or it returns and the next instruction jumps to
\* vmx_entry_failed.  vmx_launch_simulated routes a returned Err to
\* vmx_entry_failed and anything else to its trailing loop {}.
VmEntryOutcomes == {"Entered", "Err"}

\* Mutant of after_vm_entry: a failed entry returns to the caller of launch_vm.
after_vm_entry_returning(outcome) ==
    CASE outcome = "Entered" -> "guest"
      [] OTHER               -> "created"

after_vm_entry(outcome) ==
    CASE outcome = "Entered" -> "guest"
      [] outcome = "Err"     -> "vmx_entry_failed"
      [] OTHER               -> "launch_spin"

\* The number of VM exits a core takes in a run.
MaxVmExits == 2

VmExitCount(c) ==
    Cardinality({i \in 1..Len(log[c]) : log[c][i][1] = "vmx_exit"})

(***************************************************************************)
(* Actions.                                                                *)
(***************************************************************************)
Goto(c, next) == pc' = [pc EXCEPT ![c] = next]

\* Mutant of Store: the structure is shared, a write by one core reaches
\* every core's ArchCpu.
Store_shared(c, self) == cpu' = [d \in DOMAIN cpu |-> self]

Store(c, self) == cpu' = [cpu EXCEPT ![c] = self]

Record(c, op, result) == log' = [log EXCEPT ![c] = Append(@, <<op, result>>)]

\* ArchCpu::new on core c.
New(c) ==
    /\ pc[c] = "start"
    /\ \E cpuid \in 0..(MAX_CPU_NUM - 1) :
          cpu' = (c :> ArchCpu_new(cpuid, c)) @@ cpu
    /\ Goto(c, "created")
    /\ UNCHANGED <<log, entered, args, core_end, parking_memory_set, cpu_regs, parking_memory_set_by>>

\* The call of idle.
Idle(c) ==
    /\ pc[c] = "created"
    /\ idle_requires(cpu[c], c)
    /\ entered' = (c :> cpu[c]) @@ entered
    /\ Goto(c, "idle_clear_interrupt")
    /\ UNCHANGED <<cpu, log, args, core_end, parking_memory_set, cpu_regs, parking_memory_set_by>>

\* Step 1.
IdleClearInterrupt(c) ==
    /\ pc[c] = "idle_clear_interrupt"
    /\ \E new \in Unconstrained(cpu[c]) :
          /\ idle_clear_interrupt_ensures(cpu[c], new)
          /\ Store(c, new)
    /\ Record(c, "idle_clear_interrupt", "Ok")
    /\ Goto(c, "idle_verify_cpu_id")
    /\ UNCHANGED <<entered, args, core_end, parking_memory_set, cpu_regs, parking_memory_set_by>>

\* Step 2: idle_verify_cpu_id takes &self and has no exec statement.
IdleVerifyCpuId(c) ==
    /\ pc[c] = "idle_verify_cpu_id"
    /\ Record(c, "idle_verify_cpu_id", "Ok")
    /\ Goto(c, "idle_set_power_state")
    /\ UNCHANGED <<cpu, entered, args, core_end, parking_memory_set, cpu_regs, parking_memory_set_by>>

\* Step 3.
IdleSetPowerState(c) ==
    /\ pc[c] = "idle_set_power_state"
    /\ Store(c, idle_set_power_state(cpu[c]))
    /\ Record(c, "idle_set_power_state", "Ok")
    /\ Goto(c, "idle_activate_vmx")
    /\ UNCHANGED <<entered, args, core_end, parking_memory_set, cpu_regs, parking_memory_set_by>>

\* Step 4.
IdleActivateVmx(c) ==
    /\ pc[c] = "idle_activate_vmx"
    /\ \E result \in Results :
          /\ \E new \in Unconstrained(cpu[c]) :
                /\ idle_activate_vmx_ensures(cpu[c], new, result)
                /\ Store(c, new)
          /\ Record(c, "idle_activate_vmx", result)
          /\ Goto(c, idle_after_activate_vmx(result))
    /\ UNCHANGED <<entered, args, core_end, parking_memory_set, cpu_regs, parking_memory_set_by>>

\* Step 5: PARKING_MEMORY_SET.call_once(..).
IdleInitParking(c) ==
    /\ pc[c] = "idle_init_parking"
    /\ \E new \in Unconstrained(cpu[c]) :
          /\ idle_init_parking_ensures(cpu[c], new)
          /\ Store(c, new)
    /\ parking_memory_set' = TRUE
    /\ parking_memory_set_by' = call_once(parking_memory_set, parking_memory_set_by, c)
    /\ Record(c, "idle_init_parking", "Ok")
    /\ Goto(c, "idle_setup_vmcs")
    /\ UNCHANGED <<entered, args, core_end, cpu_regs>>

\* Step 6.
IdleSetupVmcs(c) ==
    /\ pc[c] = "idle_setup_vmcs"
    /\ \E result \in Results :
          /\ \E new \in Unconstrained(cpu[c]) :
                /\ idle_setup_vmcs_ensures(cpu[c], new, result)
                /\ Store(c, new)
          /\ Record(c, "idle_setup_vmcs", result)
          /\ Goto(c, idle_after_setup_vmcs(result))
    /\ UNCHANGED <<entered, args, core_end, parking_memory_set, cpu_regs, parking_memory_set_by>>

\* Step 7.
IdleSetStackTop(c) ==
    /\ pc[c] = "idle_set_stack_top"
    /\ \E out \in idle_set_stack_top(cpu[c]) :
          /\ Store(c, out.self)
          /\ Record(c, "idle_set_stack_top", IF out.panic THEN "panic" ELSE "Ok")
          /\ Goto(c, IF out.panic THEN "panic" ELSE "idle_activate_and_launch")
    /\ UNCHANGED <<entered, args, core_end, parking_memory_set, cpu_regs, parking_memory_set_by>>

\* Step 8: idle_activate_and_launch never returns.
IdleActivateAndLaunch(c) ==
    /\ pc[c] = "idle_activate_and_launch"
    /\ Record(c, "idle_activate_and_launch", "Ok")
    /\ Goto(c, idle_activate_and_launch)
    /\ UNCHANGED <<cpu, entered, args, core_end, parking_memory_set, cpu_regs, parking_memory_set_by>>

IdleStep(c) ==
    \/ Idle(c)
    \/ IdleClearInterrupt(c)
    \/ IdleVerifyCpuId(c)
    \/ IdleSetPowerState(c)
    \/ IdleActivateVmx(c)
    \/ IdleInitParking(c)
    \/ IdleSetupVmcs(c)
    \/ IdleSetStackTop(c)
    \/ IdleActivateAndLaunch(c)

\* The call of launch_vm(entry, rsp).
LaunchVm(c) ==
    /\ pc[c] = "created"
    /\ \E entry \in LaunchEntries, rsp \in LaunchRsps :
          /\ launch_vm_requires(cpu[c], entry, rsp)
          /\ args' = (c :> [entry |-> entry, rsp |-> rsp]) @@ args
    /\ entered' = (c :> cpu[c]) @@ entered
    /\ Goto(c, "activate_vmx")
    /\ UNCHANGED <<cpu, log, core_end, parking_memory_set, cpu_regs, parking_memory_set_by>>

\* Launch step 1.
ActivateVmx(c) ==
    /\ pc[c] = "activate_vmx"
    /\ \E result \in Results :
          /\ \E new \in Unconstrained(cpu[c]) :
                /\ activate_vmx_ensures(cpu[c], new, result)
                /\ Store(c, new)
          /\ Record(c, "activate_vmx", result)
          /\ Goto(c, launch_after_activate_vmx(result))
    /\ UNCHANGED <<entered, args, core_end, parking_memory_set, cpu_regs, parking_memory_set_by>>

\* Launch step 2.
SetupVmcs(c) ==
    /\ pc[c] = "setup_vmcs"
    /\ \E result \in Results :
          /\ \E new \in Unconstrained(cpu[c]) :
                /\ setup_vmcs_ensures(cpu[c], new, result)
                /\ Store(c, new)
          /\ Record(c, "setup_vmcs", result)
          /\ Goto(c, launch_after_setup_vmcs(result))
    /\ UNCHANGED <<entered, args, core_end, parking_memory_set, cpu_regs, parking_memory_set_by>>

\* Launch step 3: vmx_launch restores the guest registers (the whole
\* sequence mov rsp, rdi; restore_regs_from_stack!()) and executes vmlaunch;
\* it writes nothing to the ArchCpu.
VmxLaunch(c) ==
    /\ pc[c] = "vmx_launch"
    /\ \E outcome \in VmEntryOutcomes :
          /\ Record(c, "vmx_launch", outcome)
          /\ Goto(c, after_vm_entry(outcome))
    /\ cpu_regs' = (c :> RegistersAtVmEntry(cpu[c])) @@ cpu_regs
    /\ UNCHANGED <<cpu, entered, args, core_end, parking_memory_set, parking_memory_set_by>>

\* A VM exit: vmx_exit saves the guest's registers into guest_regs and
\* switches to host_stack_top.  From here to the next restore the register
\* file is the handler's and is not followed.
VmExit(c) ==
    /\ pc[c] = "guest"
    /\ VmExitCount(c) < MaxVmExits
    /\ \E g \in {ZeroRegisters, ScratchRegisters, CountingRegisters} :
          Store(c, [cpu[c] EXCEPT !.guest_regs = g])
    /\ Record(c, "vmx_exit", "Ok")
    /\ Goto(c, "vmexit_handler")
    /\ cpu_regs' = [d \in DOMAIN cpu_regs \ {c} |-> cpu_regs[d]]
    /\ UNCHANGED <<entered, args, core_end, parking_memory_set, parking_memory_set_by>>

\* call vmexit_handler
VmexitHandler(c) ==
    /\ pc[c] = "vmexit_handler"
    /\ \E new \in Unconstrained(cpu[c]) :
          /\ vmexit_handler_ensures(cpu[c], new)
          /\ Store(c, new)
    /\ Record(c, "vmexit_handler", "Ok")
    /\ Goto(c, "vmresume")
    /\ UNCHANGED <<entered, args, core_end, parking_memory_set, cpu_regs, parking_memory_set_by>>

\* mov rsp, r15; restore_regs_from_stack!(); vmresume; jmp failed
VmResume(c) ==
    /\ pc[c] = "vmresume"
    /\ \E outcome \in VmEntryOutcomes :
          /\ Record(c, "vmresume", outcome)
          /\ Goto(c, after_vm_entry(outcome))
    /\ cpu_regs' = (c :> RegistersAtVmEntry(cpu[c])) @@ cpu_regs
    /\ UNCHANGED <<cpu, entered, args, core_end, parking_memory_set, parking_memory_set_by>>

\* The steps launch_vm and the exit stub execute by themselves; a VM exit is
\* the guest's doing.
LaunchRun(c) ==
    \/ ActivateVmx(c)
    \/ SetupVmcs(c)
    \/ VmxLaunch(c)
    \/ VmexitHandler(c)
    \/ VmResume(c)

LaunchStep(c) == LaunchVm(c) \/ LaunchRun(c) \/ VmExit(c)

Init ==
    /\ \E c \in Cores : pc = [d \in Cores |-> IF d = c THEN "start" ELSE "absent"]
    /\ cpu = <<>>
    /\ log = [c \in Cores |-> <<>>]
    /\ entered = <<>>
    /\ args = <<>>
    /\ core_end \in CoreEnds
    /\ parking_memory_set = FALSE
    /\ cpu_regs = <<>>
    /\ parking_memory_set_by = <<>>

Next == \E c \in Cores : New(c) \/ IdleStep(c) \/ LaunchStep(c)

Spec == Init /\ [][Next]_vars

(***************************************************************************)
(* idle_set_stack_top as a function of its inputs: every core id below     *)
(* MAX_CPU_NUM and every sampled core_end(), the ones at which the sum     *)
(* does not fit in 64 bits included.  The structure is the one idle hands  *)
(* to step 7: created, powered off, VMX on, VMCS configured.               *)
(***************************************************************************)
BeforeStackTop(c) ==
    [idle_set_power_state(ArchCpu_new(c, c)) EXCEPT !.vmx_on = TRUE, !.vmcs_configured = TRUE]

StackInit ==
    /\ \E c \in 0..(MAX_CPU_NUM - 1) :
          /\ pc = (c :> "idle_set_stack_top")
          /\ cpu = (c :> BeforeStackTop(c))
          /\ log = (c :> <<>>)
          /\ entered = (c :> BeforeStackTop(c))
          /\ parking_memory_set_by = <<c>>
    /\ args = <<>>
    /\ core_end \in CoreEndsWide
    /\ parking_memory_set = TRUE
    /\ cpu_regs = <<>>

StackNext == \E c \in DOMAIN pc : IdleSetStackTop(c)

StackSpec == StackInit /\ [][StackNext]_vars

(***************************************************************************)
(* idle_set_stack_top on two cores with the same core_end(): ids from both *)
(* ends and the middle of the range, and values of core_end() on either    *)
(* side of the largest one at which all MAX_CPU_NUM stacks fit.            *)
(***************************************************************************)
PairIds == {0, 1, 2, 127, 128, MAX_CPU_NUM - 2, MAX_CPU_NUM - 1}

\* 2^64 - 16 - MAX_CPU_NUM * PER_CPU_SIZE, the largest aligned core_end() with
\* core_end() + MAX_CPU_NUM * PER_CPU_SIZE <= u64::MAX.
CoreEndFitsAll == <<LimbBase - 16, LimbBase - 1 - 2048, LimbBase - 1, LimbBase - 1>>

PairInit ==
    /\ \E i \in PairIds, j \in PairIds :
          /\ i < j
          /\ pc = (i :> "idle_set_stack_top" @@ j :> "idle_set_stack_top")
          /\ cpu = (i :> BeforeStackTop(i) @@ j :> BeforeStackTop(j))
          /\ entered = (i :> BeforeStackTop(i) @@ j :> BeforeStackTop(j))
          /\ log = (i :> <<>> @@ j :> <<>>)
          /\ parking_memory_set_by = <<i>>
    /\ args = <<>>
    /\ core_end \in CoreEndsWide \cup {CoreEndFitsAll}
    /\ parking_memory_set = TRUE
    /\ cpu_regs = <<>>

PairSpec == PairInit /\ [][StackNext]_vars

(***************************************************************************)
(* idle_set_stack_top called out of order, before idle_activate_vmx: the   *)
(* structure is the one idle has after steps 1 to 3, created and powered   *)
(* off, with VMX off and no VMCS.                                          *)
(***************************************************************************)
BeforeActivateVmx(c) == idle_set_power_state(ArchCpu_new(c, c))

EarlyStackInit ==
    /\ \E c \in 0..(MAX_CPU_NUM - 1) :
          /\ pc = (c :> "idle_set_stack_top")
          /\ cpu = (c :> BeforeActivateVmx(c))
          /\ log = (c :> <<>>)
          /\ entered = (c :> BeforeActivateVmx(c))
    /\ args = <<>>
    /\ core_end \in CoreEndsWide
    /\ parking_memory_set = FALSE
    /\ cpu_regs = <<>>
    /\ parking_memory_set_by = <<>>

EarlyStackSpec == EarlyStackInit /\ [][StackNext]_vars

(***************************************************************************)
(* Two cores at once: each runs new and then idle or launch_vm, their      *)
(* steps interleaved in every order.  The register frames and the VMX      *)
(* regions, which no step of idle or launch_vm reads, keep the content new *)
(* gave them; every other field varies as the contracts allow.             *)
(***************************************************************************)
FramesAsCreated ==
    \A c \in DOMAIN cpu :
        /\ cpu[c].guest_regs = ZeroRegisters
        /\ cpu[c].vm_launch_guest_regs = ZeroRegisters
        /\ HwResource(cpu[c]) = HwResource(ArchCpu_new(c, c))

\* The cores that run: the boot core and one other.
MultiCores == {0, 3}

MultiInit ==
    /\ pc = [d \in Cores |-> IF d \in MultiCores THEN "start" ELSE "absent"]
    /\ cpu = <<>>
    /\ log = [c \in Cores |-> <<>>]
    /\ entered = <<>>
    /\ args = <<>>
    /\ core_end = CoreEndExample
    /\ parking_memory_set = FALSE
    /\ cpu_regs = <<>>
    /\ parking_memory_set_by = <<>>

MultiNext == Next /\ FramesAsCreated'

MultiSpec == MultiInit /\ [][MultiNext]_vars

(***************************************************************************)
(* vmx_launch one instruction at a time, on a structure launch_vm hands to *)
(* it (VMX on, VMCS configured) with every sampled content of the guest    *)
(* register frame.  The log holds the instructions executed so far.        *)
(***************************************************************************)
OneHotRegisters(r) == [q \in RegisterNames |-> IF q = r THEN 65535 ELSE 0]

FrameSamples ==
    {ZeroRegisters, ScratchRegisters, CountingRegisters}
        \cup {OneHotRegisters(r) : r \in RegisterNames}

BeforeVmxLaunch(c, frame, top) ==
    [ArchCpu_new(c, c) EXCEPT !.vmx_on = TRUE, !.vmcs_configured = TRUE,
                              !.guest_regs = frame, !.host_stack_top = top]

\* The stack tops of the sampled structures are 0 and 0x20000010.
RestoreInit ==
    /\ \E c \in Cores, frame \in FrameSamples, top \in {U64Zero, U64(536870928)} :
          /\ pc = (c :> "vmx_launch")
          /\ cpu = (c :> BeforeVmxLaunch(c, frame, top))
          /\ entered = (c :> BeforeVmxLaunch(c, frame, top))
          /\ log = (c :> <<>>)
          /\ args = (c :> [entry |-> 2097152, rsp |-> 3145728])
          /\ cpu_regs = (c :> [CpuRegisters_at_call EXCEPT !.rdi = guest_regs_addr])
    /\ core_end = CoreEndExample
    /\ parking_memory_set = FALSE
    /\ parking_memory_set_by = <<>>

\* The number of instructions of the sequence core c has executed.
Executed(c) == Len(log[c])

\* The next instruction of the sequence is executed.
RestoreInstr(c) ==
    /\ pc[c] = "vmx_launch"
    /\ Executed(c) < Len(vmx_launch_sequence)
    /\ LET instr == vmx_launch_sequence[Executed(c) + 1] IN
          /\ cpu_regs' = [cpu_regs EXCEPT
                            ![c] = Execute(instr, @, ArchCpuImage(cpu[c]))]
          /\ Record(c, instr.name, "Ok")
    /\ UNCHANGED <<cpu, pc, entered, args, core_end, parking_memory_set, parking_memory_set_by>>

\* vmlaunch; jmp failed
RestoreVmlaunch(c) ==
    /\ pc[c] = "vmx_launch"
    /\ Executed(c) = Len(vmx_launch_sequence)
    /\ \E outcome \in VmEntryOutcomes :
          /\ Record(c, "vmlaunch", outcome)
          /\ Goto(c, after_vm_entry(outcome))
    /\ UNCHANGED <<cpu, entered, args, core_end, parking_memory_set, cpu_regs, parking_memory_set_by>>

RestoreNext == \E c \in DOMAIN pc : RestoreInstr(c) \/ RestoreVmlaunch(c)

RestoreSpec == RestoreInit /\ [][RestoreNext]_vars

(***************************************************************************)
(* idle_init_parking called repeatedly, from every sampled structure that  *)
(* satisfies inv (its requires clause).                                    *)
(***************************************************************************)
MaxInitParkingCalls == 2

InvStates(c) == {s \in Unconstrained(ArchCpu_new(c, c)) : inv(s)}

InitParkingInit ==
    /\ \E c \in Cores :
          /\ pc = (c :> "idle_init_parking")
          /\ \E s \in InvStates(c) :
                cpu = (c :> s) /\ entered = (c :> s)
          /\ log = (c :> <<>>)
    /\ args = <<>>
    /\ core_end = CoreEndExample
    /\ parking_memory_set = FALSE
    /\ cpu_regs = <<>>
    /\ parking_memory_set_by = <<>>

InitParkingCall(c) ==
    /\ pc[c] = "idle_init_parking"
    /\ Len(log[c]) < MaxInitParkingCalls
    /\ inv(cpu[c])
    /\ \E new \in Unconstrained(cpu[c]) :
          /\ idle_init_parking_ensures(cpu[c], new)
          /\ Store(c, new)
    /\ parking_memory_set' = TRUE
    /\ parking_memory_set_by' = call_once(parking_memory_set, parking_memory_set_by, c)
    /\ Record(c, "idle_init_parking", "Ok")
    /\ UNCHANGED <<pc, entered, args, core_end, cpu_regs>>

InitParkingNext == \E c \in DOMAIN pc : InitParkingCall(c)

InitParkingSpec == InitParkingInit /\ [][InitParkingNext]_vars

(***************************************************************************)
(* idle_set_power_state and idle_set_stack_top as functions of their       *)
(* input: one core calls the first and another the second, each on a       *)
(* sampled structure that satisfies inv, power on or off, VMX on or off,   *)
(* with or without a stack top.                                            *)
(***************************************************************************)
StepInputs(c) ==
    {s \in InvStates(c) :
        /\ s.guest_regs = ZeroRegisters
        /\ s.vm_launch_guest_regs = ZeroRegisters
        /\ HwResource(s) = HwResource(ArchCpu_new(c, c))}

StepEffectInit ==
    /\ \E c1 \in Cores, c2 \in Cores :
          /\ c1 # c2
          /\ pc = (c1 :> "idle_set_power_state") @@ (c2 :> "idle_set_stack_top")
          /\ \E s1 \in StepInputs(c1), s2 \in StepInputs(c2) :
                /\ cpu = (c1 :> s1) @@ (c2 :> s2)
                /\ entered = (c1 :> s1) @@ (c2 :> s2)
          /\ log = (c1 :> <<>>) @@ (c2 :> <<>>)
    /\ args = <<>>
    /\ core_end \in CoreEnds
    /\ parking_memory_set = FALSE
    /\ cpu_regs = <<>>
    /\ parking_memory_set_by = <<>>

StepEffectNext == \E c \in DOMAIN pc : IdleSetPowerState(c) \/ IdleSetStackTop(c)

StepEffectSpec == StepEffectInit /\ [][StepEffectNext]_vars


(***************************************************************************)
(* Properties.                                                             *)
(***************************************************************************)

\* The steps of core c, in order.
Steps(c) == {log[c][i] : i \in 1..Len(log[c])}

\* activate_vmx or setup_vmcs (either variant) has reported Err on core c: the
\* operations whose ensures clause speaks of the Ok result only.
HwOpFailed(c) ==
    \E op \in {"idle_activate_vmx", "idle_setup_vmcs", "activate_vmx", "setup_vmcs"} :
        <<op, "Err">> \in Steps(c)

\* Idle step 4 or step 6 has reported Err on core c.
IdleOpFailed(c) ==
    <<"idle_activate_vmx", "Err">> \in Steps(c) \/ <<"idle_setup_vmcs", "Err">> \in Steps(c)

\* Core c has executed idle step 7.
StackTopAssigned(c) == <<"idle_set_stack_top", "Ok">> \in Steps(c)

\* C1: the commit to parked execution (idle step 8) is only taken in a state
\* where VMX is on, the VMCS is configured, host_stack_top is non-zero, above
\* core_end() and 16-byte aligned, and the core is powered off.
C1_CommitOnlyWhenReady ==
    \A c \in DOMAIN cpu :
        pc[c] = "idle_activate_and_launch" =>
            /\ cpu[c].vmx_on
            /\ cpu[c].vmcs_configured
            /\ cpu[c].host_stack_top # U64Zero
            /\ U64Gt(cpu[c].host_stack_top, core_end)
            /\ U64Mod16(cpu[c].host_stack_top) = 0
            /\ ~cpu[c].power_on

\* C1 witness: a core has run all of idle and is parked.
C1_Witness ==
    \E c \in DOMAIN cpu :
        /\ pc[c] = "parked"
        /\ <<"idle_activate_and_launch", "Ok">> \in Steps(c)

ExpectedStackTop(c) == U64Add(core_end, <<0, 8 * (c + 1), 0, 0>>)

\* Step 7 has run to completion on core c.
AfterStackTop(c) == pc[c] = "idle_activate_and_launch"

\* C4 as stated: for every core id below 256 and every aligned core_end() > 0,
\* step 7 stores core_end() + (id + 1) * 524288 in 64-bit arithmetic and the
\* result is above core_end() and 16-byte aligned.
C4_Original ==
    \A c \in DOMAIN cpu :
        AfterStackTop(c) =>
            /\ cpu[c].host_stack_top = ExpectedStackTop(c).value
            /\ U64Gt(cpu[c].host_stack_top, core_end)
            /\ U64Mod16(cpu[c].host_stack_top) = 0

\* C4 as amended: the same, for every core id and aligned core_end() > 0 with
\* core_end() + (id + 1) * 524288 <= 2^64 - 1.
C4_StackTopWhenSumFits ==
    \A c \in DOMAIN cpu :
        AfterStackTop(c) /\ ~ExpectedStackTop(c).overflow =>
            /\ cpu[c].host_stack_top = ExpectedStackTop(c).value
            /\ U64Gt(cpu[c].host_stack_top, core_end)
            /\ U64Mod16(cpu[c].host_stack_top) = 0

\* C4 witness: core 0 with core_end() = 2^64 - 2^20, the largest sum that
\* fits: host_stack_top = 2^64 - 2^19.
C4_Witness ==
    /\ 0 \in DOMAIN cpu
    /\ AfterStackTop(0)
    /\ core_end = CoreEndHigh
    /\ cpu[0].host_stack_top = <<0, LimbBase - 8, LimbBase - 1, LimbBase - 1>>

C6_NewYieldsCleanState ==
    \A c \in DOMAIN cpu :
        pc[c] = "created" =>
            /\ \A r \in RegisterNames :
                  cpu[c].guest_regs[r] = 0 /\ cpu[c].vm_launch_guest_regs[r] = 0
            /\ cpu[c].host_stack_top = U64Zero
            /\ ~cpu[c].power_on /\ ~cpu[c].vmx_on /\ ~cpu[c].vmcs_configured
            /\ cpu[c].vmxon_region.frame = <<>> /\ cpu[c].vmcs_region.frame = <<>>
            /\ cpu[c].cpuid < MAX_CPU_NUM
            /\ (cpu[c].vmx_on => cpu[c].vmcs_configured)
            /\ (cpu[c].host_stack_top = U64Zero \/ U64Mod16(cpu[c].host_stack_top) = 0)

\* C6 witness: the core with the largest id has run new.
C6_Witness ==
    /\ (MAX_CPU_NUM - 1) \in DOMAIN cpu
    /\ pc[MAX_CPU_NUM - 1] = "created"

C8_ReadyForLaunchIff ==
    \A c \in DOMAIN cpu :
        ready_for_vm_launch(cpu[c]) <=> (cpu[c].vmx_on /\ cpu[c].vmcs_configured)

\* C8 witness: ready_for_vm_launch holds at the control transfer with a guest
\* register frame that is not the zero frame.
C8_Witness ==
    \E c \in DOMAIN cpu :
        /\ pc[c] = "vmx_launch"
        /\ ready_for_vm_launch(cpu[c])
        /\ cpu[c].guest_regs # ZeroRegisters

\* C9: launch_vm reaches the control transfer only after activate_vmx and then
\* setup_vmcs have succeeded, in that order, and ready_for_vm_launch holds
\* immediately before the transfer.
C9_TransferAfterBothSucceed ==
    \A c \in DOMAIN cpu :
        /\ pc[c] = "vmx_launch" =>
              /\ log[c] = <<<<"activate_vmx", "Ok">>, <<"setup_vmcs", "Ok">>>>
              /\ cpu[c].vmx_on /\ cpu[c].vmcs_configured
        /\ \A i \in 1..Len(log[c]) :
              log[c][i][1] = "vmx_launch" =>
                  /\ i = 3
                  /\ log[c][1] = <<"activate_vmx", "Ok">>
                  /\ log[c][2] = <<"setup_vmcs", "Ok">>

\* C9 witness: the guest is running after launch_vm(0x200000, 0x300000).
C9_Witness ==
    \E c \in DOMAIN cpu :
        /\ pc[c] = "guest"
        /\ log[c] = <<<<"activate_vmx", "Ok">>, <<"setup_vmcs", "Ok">>, <<"vmx_launch", "Entered">>>>
        /\ args[c] = [entry |-> 2097152, rsp |-> 3145728]

\* The positions of a core inside launch_vm and the exit stub.
LaunchPositions ==
    {"activate_vmx", "setup_vmcs", "vmx_launch", "guest", "vmexit_handler",
     "vmresume", "vmx_entry_failed", "launch_spin"}

\* Core c has called launch_vm.
Launched(c) == c \in DOMAIN args

\* The last step of core c reported a failure.
LastStepFailed(c) == Len(log[c]) > 0 /\ log[c][Len(log[c])][2] = "Err"

\* C10: launch_vm never returns to its caller: a core that has called it stays
\* inside it; a failure of activate_vmx, of setup_vmcs or of the control
\* transfer puts it in vmx_entry_failed for good; and until it is in the guest
\* or in vmx_entry_failed its next step is enabled and at most three steps
\* remain, so every run ends in one of the two.
C10_LaunchNeverReturns ==
    \A c \in DOMAIN cpu :
        Launched(c) =>
            /\ pc[c] \in LaunchPositions
            /\ ((\E i \in 1..Len(log[c]) : log[c][i][2] = "Err")
                    => pc[c] = "vmx_entry_failed" /\ LastStepFailed(c))
            /\ (pc[c] \in {"activate_vmx", "setup_vmcs", "vmx_launch"}
                    => ENABLED LaunchRun(c) /\ Len(log[c]) < 3)

\* C10 witness: the control transfer itself has failed and the core is in
\* vmx_entry_failed.
C10_Witness ==
    \E c \in DOMAIN cpu :
        /\ Launched(c)
        /\ pc[c] = "vmx_entry_failed"
        /\ log[c][Len(log[c])] = <<"vmx_launch", "Err">>


\* Some operation of core c, of any sequence, can take a step.
CoreEnabled(c) == ENABLED (New(c) \/ IdleStep(c) \/ LaunchStep(c))

\* C11: once a core has committed to parked execution (idle step 8) it is
\* parked, the commit is the last step it has taken and the only commit, and
\* no operation of the core is enabled again.
C11_ParkedIsTerminal ==
    \A c \in DOMAIN cpu :
        <<"idle_activate_and_launch", "Ok">> \in Steps(c) =>
            /\ pc[c] = "parked"
            /\ Len(log[c]) = 8
            /\ log[c][8][1] = "idle_activate_and_launch"
            /\ \A i \in 1..7 : log[c][i][1] # "idle_activate_and_launch"
            /\ ~CoreEnabled(c)

\* C11 witness: a core is parked after the eight steps of idle and nothing is
\* enabled on it.
C11_Witness ==
    \E c \in DOMAIN cpu :
        /\ pc[c] = "parked"
        /\ Len(log[c]) = 8
        /\ ~CoreEnabled(c)

\* C12: a step that reported a failure is the last step its core has taken:
\* the core is halted (in idle's loop or in vmx_entry_failed) and no operation
\* of the core is enabled, so nothing is retried and nothing further runs.
C12_FailureHaltsForGood ==
    \A c \in DOMAIN cpu :
        \A i \in 1..Len(log[c]) :
            log[c][i][2] = "Err" =>
                /\ i = Len(log[c])
                /\ pc[c] \in {"idle_halt", "vmx_entry_failed"}
                /\ ~CoreEnabled(c)

\* C12 witness: launch step 1 has failed and was the only step taken; the core
\* is in vmx_entry_failed.
C12_Witness ==
    \E c \in DOMAIN cpu :
        /\ log[c] = <<<<"activate_vmx", "Err">>>>
        /\ pc[c] = "vmx_entry_failed"
        /\ ~CoreEnabled(c)


\* The positions of a core inside idle, before its two ends.
IdlePositions ==
    {"idle_clear_interrupt", "idle_verify_cpu_id", "idle_set_power_state",
     "idle_activate_vmx", "idle_init_parking", "idle_setup_vmcs",
     "idle_set_stack_top", "idle_activate_and_launch"}

\* Core c has called idle.
InIdle(c) == c \in DOMAIN entered /\ c \notin DOMAIN args

\* Every run of idle ends parked or halted: a core inside idle is at one of
\* the eight steps with that step enabled and fewer than eight steps taken, or
\* it is parked or halted; it is halted only after a failure.
IdleRunsToItsEnd(c) ==
    InIdle(c) =>
        /\ pc[c] \in IdlePositions \cup {"parked", "idle_halt"}
        /\ (pc[c] \in IdlePositions => ENABLED IdleStep(c) /\ Len(log[c]) < 8)
        /\ (pc[c] = "idle_halt" => LastStepFailed(c))

\* At the commit step the stack top is core_end() + (c + 1) * 524288 and
\* ready_for_idle holds.
CommitWithStackTop(c) ==
    pc[c] = "idle_activate_and_launch" =>
        /\ cpu[c].host_stack_top = ExpectedStackTop(c).value
        /\ ready_for_idle(cpu[c])

C14_StackTopBeforeVmx ==
    \A c \in DOMAIN cpu :
        AfterStackTop(c) =>
            /\ cpu[c].host_stack_top = ExpectedStackTop(c).value
            /\ ~cpu[c].vmx_on
            /\ ~cpu[c].vmcs_configured
            /\ ~ready_for_idle(cpu[c])

\* C14 witness: step 7 has run first on core 0 with core_end() = 0x10000000:
\* host_stack_top = 0x10080000, above core_end() and aligned, with VMX off.
C14_Witness ==
    /\ 0 \in DOMAIN cpu
    /\ AfterStackTop(0)
    /\ core_end = CoreEndExample
    /\ cpu[0].host_stack_top = U64(268959744)
    /\ ~cpu[0].vmx_on /\ ~cpu[0].vmcs_configured
    /\ ~ready_for_idle(cpu[0])


\* The five fields of the per-core state the specification names.
CoreFields(self) ==
    <<self.cpuid, self.vmx_on, self.vmcs_configured, self.power_on, self.host_stack_top>>

\* C15: idle_init_parking is idempotent on the per-core state: after one call
\* and after two calls in a row, from any structure satisfying inv, cpuid,
\* vmx_on, vmcs_configured, power_on and host_stack_top equal the values before
\* the first call, inv holds so the next call is admitted, and the parking
\* memory is set up.
C15_InitParkingIdempotent ==
    \A c \in DOMAIN cpu :
        /\ CoreFields(cpu[c]) = CoreFields(entered[c])
        /\ inv(cpu[c])
        /\ (Len(log[c]) < MaxInitParkingCalls => ENABLED InitParkingCall(c))
        /\ (Len(log[c]) >= 1 => parking_memory_set)

\* C15 witness: two calls in a row from a structure with VMX on, the VMCS
\* configured, power on and a non-zero stack top; other fields have changed.
C15_Witness ==
    \E c \in DOMAIN cpu :
        /\ log[c] = <<<<"idle_init_parking", "Ok">>, <<"idle_init_parking", "Ok">>>>
        /\ entered[c].vmx_on /\ entered[c].power_on
        /\ entered[c].host_stack_top # U64Zero
        /\ cpu[c] # entered[c]
        /\ CoreFields(cpu[c]) = CoreFields(entered[c])


\* The bytes of frame regs at the declared offset of register r.
SlotAt(regs, r) == SubSeq(FrameImage(regs), offset_of[r] + 1, offset_of[r] + SlotSize)

\* C16: the register frame has 16 slots of 8 bytes in the order rax, rcx, rdx,
\* rbx, (unused rsp), rbp, rsi, rdi, r8..r15; the slot at index i is at offset
\* 8 * i, the declared offsets are these, distinct and without overlap, the
\* last slot ends at the size 128, and in every frame a core holds the bytes
\* at a register's declared offset are that register's value.
C16_FrameLayout ==
    /\ RegisterOrder = <<"rax", "rcx", "rdx", "rbx", "_unused_rsp", "rbp", "rsi",
                         "rdi", "r8", "r9", "r10", "r11", "r12", "r13", "r14", "r15">>
    /\ \A i \in 1..16 : repr_C_offset(i) = 8 * (i - 1)
    /\ DOMAIN offset_of = RegisterNames \ {"_unused_rsp"}
    /\ \A r \in DOMAIN offset_of : offset_of[r] = 8 * (RegisterIndex(r) - 1)
    /\ \A r, s \in DOMAIN offset_of :
          r # s => (offset_of[r] + 8 <= offset_of[s] \/ offset_of[s] + 8 <= offset_of[r])
    /\ offset_of["r15"] + 8 = GeneralRegisters_size
    /\ GeneralRegisters_size = 128
    /\ \A c \in DOMAIN cpu :
          \A regs \in {cpu[c].guest_regs, cpu[c].vm_launch_guest_regs} :
              /\ Len(FrameImage(regs)) = GeneralRegisters_size
              /\ \A r \in DOMAIN offset_of : SlotAt(regs, r) = U64Bytes(regs[r])

\* C16 witness: a VM exit has saved sixteen distinct values; the bytes at
\* offset 40 are rbp's and the bytes at offset 120 are r15's.
C16_Witness ==
    \E c \in DOMAIN cpu :
        /\ pc[c] = "vmexit_handler"
        /\ cpu[c].guest_regs = CountingRegisters
        /\ SubSeq(FrameImage(cpu[c].guest_regs), 41, 48) = U64Bytes(6)
        /\ SubSeq(FrameImage(cpu[c].guest_regs), 121, 128) = U64Bytes(16)


\* C17 as stated: whenever a core is about to transfer control to a guest, at
\* launch step 3 or at the launch primitive of idle, host_stack_top is
\* non-zero and 16-byte aligned; new followed directly by launch_vm included.
C17_Original ==
    \A c \in DOMAIN cpu :
        pc[c] \in {"vmx_launch", "idle_activate_and_launch"} =>
            /\ cpu[c].host_stack_top # U64Zero
            /\ U64Mod16(cpu[c].host_stack_top) = 0


\* The eight steps of idle in the order of the specification.
IdleOrder ==
    <<"idle_clear_interrupt", "idle_verify_cpu_id", "idle_set_power_state",
      "idle_activate_vmx", "idle_init_parking", "idle_setup_vmcs",
      "idle_set_stack_top", "idle_activate_and_launch">>

\* The steps core c has taken are the first steps of IdleOrder, each once, all
\* but possibly the last successful, and the core is at the next one, parked,
\* or halted at a failed one.
IdleStepsInOrder(c) ==
    /\ Len(log[c]) <= 8
    /\ \A i \in 1..Len(log[c]) :
          /\ log[c][i][1] = IdleOrder[i]
          /\ (i < Len(log[c]) => log[c][i][2] = "Ok")
    /\ (pc[c] \in IdlePositions => pc[c] = IdleOrder[Len(log[c]) + 1])
    /\ (pc[c] = "parked" => Len(log[c]) = 8)
    /\ (pc[c] = "idle_halt" => LastStepFailed(c))

TakesStep(c, step) == pc[c] = step /\ pc'[c] # step

\* C19: idle steps 1 (idle_clear_interrupt), 2 (idle_verify_cpu_id) and 5
\* (idle_init_parking) leave cpuid, vmx_on, vmcs_configured, power_on and
\* host_stack_top as they were before the step.
C19_StepsLeaveFieldsUnchanged ==
    [][\A c \in DOMAIN cpu :
          (\/ TakesStep(c, "idle_clear_interrupt")
           \/ TakesStep(c, "idle_verify_cpu_id")
           \/ TakesStep(c, "idle_init_parking"))
              => CoreFields(cpu'[c]) = CoreFields(cpu[c])]_vars

\* C19 witness: steps 1, 2 and 5 have run; VMX is on since step 4, and step 1
\* or step 5 has written the register frame.
C19_Witness ==
    \E c \in DOMAIN cpu :
        /\ pc[c] = "idle_setup_vmcs"
        /\ <<"idle_init_parking", "Ok">> \in Steps(c)
        /\ cpu[c].vmx_on
        /\ cpu[c].guest_regs = ScratchRegisters
        /\ cpu[c].host_stack_top = entered[c].host_stack_top


\* C20: idle step 3 (idle_set_power_state) changes only power_on, which it
\* sets to false, and idle step 7 (idle_set_stack_top) changes only
\* host_stack_top: every other field of the structure, cpuid, vmx_on and
\* vmcs_configured among them, is as it was before the step.
C20_StepsChangeOneField ==
    \A c \in DOMAIN cpu :
        /\ <<"idle_set_power_state", "Ok">> \in Steps(c) =>
              /\ cpu[c] = [entered[c] EXCEPT !.power_on = FALSE]
              /\ cpu[c].host_stack_top = entered[c].host_stack_top
        /\ <<"idle_set_stack_top", "Ok">> \in Steps(c) =>
              /\ cpu[c] = [entered[c] EXCEPT !.host_stack_top = ExpectedStackTop(c).value]
              /\ cpu[c].power_on = entered[c].power_on

\* C20 witness: one core has run step 3 from power on with VMX on and a
\* non-zero stack top, another has run step 7 with power on and got a new
\* stack top.
C20_Witness ==
    \E c1 \in DOMAIN cpu, c2 \in DOMAIN cpu :
        /\ log[c1] = <<<<"idle_set_power_state", "Ok">>>>
        /\ entered[c1].power_on /\ ~cpu[c1].power_on
        /\ cpu[c1].vmx_on /\ cpu[c1].host_stack_top # U64Zero
        /\ log[c2] = <<<<"idle_set_stack_top", "Ok">>>>
        /\ cpu[c2].power_on
        /\ cpu[c2].host_stack_top # entered[c2].host_stack_top


\* The result the step just taken by core c has reported.
StepResult(c) == log'[c][Len(log'[c])][2]

\* Core c executes idle_activate_vmx or activate_vmx.
TakesActivateVmx(c) ==
    TakesStep(c, "idle_activate_vmx") \/ TakesStep(c, "activate_vmx")

TakesSetupVmcs(c) ==
    TakesStep(c, "idle_setup_vmcs") \/ TakesStep(c, "setup_vmcs")

\* C22: idle_setup_vmcs and setup_vmcs are only executed in a state where
\* vmx_on is true, and when they succeed vmcs_configured is true and vmx_on,
\* cpuid and power_on are unchanged.
C22_SetupVmcsWithVmxOn ==
    [][\A c \in DOMAIN cpu :
          TakesSetupVmcs(c) =>
              /\ cpu[c].vmx_on
              /\ StepResult(c) = "Ok" =>
                    /\ cpu'[c].vmcs_configured
                    /\ cpu'[c].vmx_on = cpu[c].vmx_on
                    /\ cpu'[c].cpuid = cpu[c].cpuid
                    /\ cpu'[c].power_on = cpu[c].power_on]_vars

\* C22 witness: setup_vmcs has just succeeded on a launching core and the
\* core is about to transfer control with VMX on and the VMCS configured.
C22_Witness ==
    \E c \in DOMAIN cpu :
        /\ pc[c] = "vmx_launch"
        /\ log[c][Len(log[c])] = <<"setup_vmcs", "Ok">>
        /\ cpu[c].vmx_on /\ cpu[c].vmcs_configured
        /\ cpu[c].cpuid = entered[c].cpuid


C25_ExitHandlingKeepsReady ==
    \A c \in DOMAIN args :
        pc[c] \in {"guest", "vmexit_handler", "vmresume"} =>
            /\ inv(cpu[c])
            /\ cpu[c].cpuid = entered[c].cpuid
            /\ cpu[c].vmx_on
            /\ cpu[c].vmcs_configured
            /\ ready_for_vm_launch(cpu[c])

\* C25 witness: the guest is about to be resumed after its second VM exit,
\* with a register frame the exit stub has saved.
C25_Witness ==
    \E c \in DOMAIN args :
        /\ pc[c] = "vmresume"
        /\ VmExitCount(c) = MaxVmExits
        /\ <<"vmresume", "Entered">> \in Steps(c)
        /\ cpu[c].guest_regs = CountingRegisters
        /\ ready_for_vm_launch(cpu[c])


\* The instruction core c executes next in the sequence.
NextInstr(c) == vmx_launch_sequence[Executed(c) + 1]

\* Core c is inside the sequence, with at least mov rsp, rdi executed.
InSequence(c) == pc[c] = "vmx_launch" /\ Executed(c) >= 1

\* Core c has executed the whole sequence and is at vmlaunch.
AtVmlaunch(c) == pc[c] = "vmx_launch" /\ Executed(c) = Len(vmx_launch_sequence)

GeneralPurpose == CpuRegisterNames \ {"rsp"}

OwnedBy(c) ==
    <<IF c \in DOMAIN cpu THEN <<cpu[c]>> ELSE <<>>,
      pc[c], log[c],
      IF c \in DOMAIN entered THEN <<entered[c]>> ELSE <<>>,
      IF c \in DOMAIN args THEN <<args[c]>> ELSE <<>>,
      IF c \in DOMAIN cpu_regs THEN <<cpu_regs[c]>> ELSE <<>>>>

\* The same in the next state.
OwnedByAfter(c) ==
    <<IF c \in DOMAIN cpu' THEN <<cpu'[c]>> ELSE <<>>,
      pc'[c], log'[c],
      IF c \in DOMAIN entered' THEN <<entered'[c]>> ELSE <<>>,
      IF c \in DOMAIN args' THEN <<args'[c]>> ELSE <<>>,
      IF c \in DOMAIN cpu_regs' THEN <<cpu_regs'[c]>> ELSE <<>>>>

\* The end of a run of idle on core c, as the core reaches it when it runs
\* alone: parked with its own id, powered off, VMX on, the VMCS configured
\* and the stack top of its own slot.
ParkedAsAlone(c) ==
    /\ cpu[c].cpuid = this_cpu_id(c)
    /\ ~cpu[c].power_on
    /\ cpu[c].vmx_on /\ cpu[c].vmcs_configured
    /\ cpu[c].host_stack_top = ExpectedStackTop(c).value

\* The guest running on core c, as the core reaches it when it runs alone.
GuestAsAlone(c) ==
    /\ cpu[c].cpuid = this_cpu_id(c)
    /\ ready_for_vm_launch(cpu[c])
    /\ args[c].entry > 0 /\ args[c].rsp % 16 = 0
    /\ cpu_regs[c] = RegistersAtVmEntry(cpu[c])

\* C28: with two cores running new, idle or launch_vm in any interleaving, a
\* step taken by one core changes only what that core owns, every field of
\* the other core's ArchCpu is unchanged by it, and each core ends parked or
\* in the guest in the state it reaches when it runs alone.
C28_CoresDoNotInterfere ==
    [][/\ \A c \in Cores, d \in Cores :
             c # d /\ OwnedByAfter(c) # OwnedBy(c) => OwnedByAfter(d) = OwnedBy(d)
       /\ \A c \in DOMAIN cpu' :
             /\ pc'[c] = "parked" => ParkedAsAlone(c)'
             /\ pc'[c] = "guest" => GuestAsAlone(c)']_vars

\* C28 witness: both cores have run to their end interleaved, one parked
\* and the other in its guest, the parked one having started first and
\* finished last.
C28_Witness ==
    /\ pc[0] = "parked" /\ ParkedAsAlone(0)
    /\ pc[3] = "guest" /\ GuestAsAlone(3)
    /\ parking_memory_set_by = <<0>>
    /\ VmExitCount(3) = 1


\* The parking memory has been initialised once and by a core that has
\* executed idle step 5, or not at all.
InitialisedOnce ==
    /\ Len(parking_memory_set_by) <= 1
    /\ parking_memory_set <=> Len(parking_memory_set_by) = 1
    /\ \A i \in 1..Len(parking_memory_set_by) :
          <<"idle_init_parking", "Ok">> \in Steps(parking_memory_set_by[i])

AllStacksFit == ~U64Add(core_end, U64(MAX_CPU_NUM * PER_CPU_SIZE)).overflow

\* a + n * PER_CPU_SIZE in 64 bits, with the carry.
StacksAbove(a, n) == U64Add(a, U64(n * PER_CPU_SIZE))

\* C30: for two core ids i < j < MAX_CPU_NUM that have both executed idle
\* step 7 with the same core_end(), where core_end() + MAX_CPU_NUM * 524288
\* <= 2^64 - 1, host_stack_top of j is host_stack_top of i plus
\* (j - i) * 524288: the two are distinct, the 524288 bytes below the one do
\* not reach into the 524288 bytes below the other, and both regions lie at
\* or above core_end().
C30_StackRegionsDisjoint ==
    \A i \in DOMAIN cpu, j \in DOMAIN cpu :
        i < j /\ AfterStackTop(i) /\ AfterStackTop(j) /\ AllStacksFit =>
            /\ ~StacksAbove(cpu[i].host_stack_top, j - i).overflow
            /\ StacksAbove(cpu[i].host_stack_top, j - i).value = cpu[j].host_stack_top
            /\ cpu[i].host_stack_top # cpu[j].host_stack_top
            /\ ~U64Gt(StacksAbove(cpu[i].host_stack_top, 1).value, cpu[j].host_stack_top)
            /\ ~StacksAbove(core_end, 1).overflow
            /\ ~U64Gt(StacksAbove(core_end, 1).value, cpu[i].host_stack_top)

\* C30 witness: cores 0 and 255 at the largest core_end() at which all stacks
\* fit; the stack top of core 255 is 2^64 - 16.
C30_Witness ==
    /\ DOMAIN cpu = {0, MAX_CPU_NUM - 1}
    /\ AfterStackTop(0) /\ AfterStackTop(MAX_CPU_NUM - 1)
    /\ core_end = CoreEndFitsAll
    /\ AllStacksFit
    /\ cpu[MAX_CPU_NUM - 1].host_stack_top = CoreEndTop
    /\ cpu[0].host_stack_top = StacksAbove(core_end, 1).value

=============================================================================
